---------------------------- MODULE Spec2Model ----------------------------
(***************************************************************************)
(* Model of the SPI transaction decoder of soypat/saleae:                  *)
(* the method Scan of analyzers.SPI (src/analyzers/spi.go).                *)
(*                                                                         *)
(* Scan walks the rising flanks of the clock line and, for each of them,   *)
(* advances one cursor per line (enable, miso, mosi) over that line's      *)
(* transition timestamps, samples one bit of each data line and packs the  *)
(* bits MSB first into bytes, which it groups into transactions on the     *)
(* enable line.                                                            *)
(*                                                                         *)
(* Timestamps are float64 seconds in the code.  Here they are naturals     *)
(* counting half time units: the capture time 0.5 is 1, 1.0 is 2, 9.0 is   *)
(* 18.  Only the order of timestamps matters to Scan.                      *)
(* Go slices are 0-based; the cursors keep their 0-based values and At     *)
(* translates an index.                                                    *)
(***************************************************************************)
EXTENDS Naturals, Sequences, FiniteSets

(***************************************************************************)
(* Bounds of the model.                                                    *)
(***************************************************************************)
\* rising clock flanks of the short captures with arbitrary lines
MaxShortEdges == 2
\* bytes clocked by a single chip-select burst
MaxBytes == 2
\* transitions of the enable line in the multi-window captures
MaxEnableLen == 4
\* rising clock flanks of the multi-window captures
WindowEdges == 18

(***************************************************************************)
(* Program constants.                                                      *)
(***************************************************************************)
\* bits per transfer: bitIdx%8, spi.go line 101
BitsPerByte == 8
\* most significant bit position of a byte: 7 - byte(bitIdx), spi.go line 97
MsbPos == 7
\* stride of the clock index: iclk += 2, spi.go line 64
ClockStride == 2
\* number of values of a Go byte
ByteMod == 256

(***************************************************************************)
(* Values.                                                                 *)
(***************************************************************************)
\* a *saleae.DigitalFile: Header.InitialState and Data (saleae.go)
DigitalFile(init, data) == [isNil |-> FALSE, InitialState |-> init, Data |-> data]

\* a nil *saleae.DigitalFile
NilFile == [isNil |-> TRUE, InitialState |-> 0, Data |-> <<>>]

\* Interval{start, end}
Interval(s, e) == [start |-> s, end |-> e]

\* TxSPI{SDI, SDO, timings}
TxSPI(sdi, sdo, tm) == [SDO |-> sdo, SDI |-> sdi, timings |-> tm]

\* s[i] of a Go slice
At(s, i) == s[i + 1]

\* a float64 result: math.NaN() or a number
NaN == [nan |-> TRUE, val |-> 0]
Float64(x) == [nan |-> FALSE, val |-> x]

\* < and <= of float64: false as soon as one side is NaN
FLess(a, b) == ~a.nan /\ ~b.nan /\ a.val < b.val
FLeq(a, b) == ~a.nan /\ ~b.nan /\ a.val <= b.val

\* func (t TxSPI) StartTime() float64
StartTime(tx) ==
    IF Len(tx.timings) < 1 THEN NaN ELSE Float64(At(tx.timings, 0).start)

\* a variant that returns the end of the first interval
EndTimeOfFirst(tx) ==
    IF Len(tx.timings) < 1 THEN NaN ELSE Float64(At(tx.timings, 0).end)

\* func (t TxSPI) EndTime() float64
EndTime(tx) ==
    IF Len(tx.timings) < 1 THEN NaN ELSE Float64(At(tx.timings, Len(tx.timings) - 1).end)

\* s[from:] of a Go slice
SliceFrom(s, from) == SubSeq(s, from + 1, Len(s))

b2u8(b) == IF b THEN 1 ELSE 0

Pow2(k) == IF k = 0 THEN 1 ELSE IF k = 1 THEN 2 ELSE IF k = 2 THEN 4
           ELSE IF k = 3 THEN 8 ELSE IF k = 4 THEN 16 ELSE IF k = 5 THEN 32
           ELSE IF k = 6 THEN 64 ELSE 128

BitOf(v, k) == (v \div Pow2(k)) % 2

RECURSIVE OrBits(_, _, _)
OrBits(a, b, k) ==
    LET bit == IF BitOf(a, k) = 1 \/ BitOf(b, k) = 1 THEN Pow2(k) ELSE 0
    IN  IF k = 0 THEN bit ELSE bit + OrBits(a, b, k - 1)

\* a | b on bytes
Or8(a, b) == OrBits(a, b, MsbPos)

\* byte(n): conversion of an int to a byte
ToByte(n) == n % ByteMod

\* a - b on bytes (wraps)
Sub8(a, b) == (a + ByteMod - b) % ByteMod

\* v << s on bytes: a shift count of 8 or more leaves 0
Shl8(v, s) == IF s > MsbPos THEN 0 ELSE (v * Pow2(s)) % ByteMod

\* cur | b2u8(state) << (7 - byte(bitIdx))
PackBit(cur, state, idx) == Or8(cur, Shl8(b2u8(state), Sub8(MsbPos, ToByte(idx))))


(***************************************************************************)
(* Captures.  The clock's rising flanks are at the even times 2, 4, ...,   *)
(* 2K; its falling flanks at the odd times between them.  The other lines  *)
(* toggle at times of the same grid, so that a transition can fall before, *)
(* between, after or exactly on a rising flank.                            *)
(***************************************************************************)
RECURSIVE SortedSeq(_)
\* the strictly increasing sequence of the elements of a finite set of naturals
SortedSeq(S) ==
    IF S = {} THEN <<>>
    ELSE LET m == CHOOSE x \in S : \A y \in S : x <= y
         IN  <<m>> \o SortedSeq(S \ {m})

\* the strictly increasing sequences of at most n elements of S
IncSeqs(S, n) == {SortedSeq(X) : X \in {Y \in SUBSET S : Cardinality(Y) <= n}}

\* a clock line with K rising flanks, at 2, 4, ..., 2K, and, when trail, a
\* falling flank after the last of them
ClockLine(init, K, trail) ==
    LET first == IF init = 1 THEN 1 ELSE 2
        last  == IF K = 0 THEN (IF init = 1 /\ trail THEN 1 ELSE 0)
                 ELSE (IF trail THEN 2 * K + 1 ELSE 2 * K)
        n     == IF last < first THEN 0 ELSE last - first + 1
    IN  DigitalFile(init, [i \in 1..n |-> first + i - 1])

\* the k-th bit, 1..8 from the most significant, of a byte
BitMsb(byte, k) == BitOf(byte, BitsPerByte - k)

\* the i-th bit, from 1, of a sequence of bytes sent MSB first
BitAt(bytes, i) == BitMsb(bytes[((i - 1) \div BitsPerByte) + 1], ((i - 1) % BitsPerByte) + 1)

\* a data line that holds the i-th bit of bytes at the i-th rising flank: it
\* toggles between two flanks when the bit changes, and once more after the
\* last flank when trail
PatternLine(bytes, init, trail) ==
    LET nbits  == BitsPerByte * Len(bytes)
        prev(i) == IF i = 1 THEN init ELSE BitAt(bytes, i - 1)
        flips  == {2 * i - 1 : i \in {j \in 1..nbits : BitAt(bytes, j) # prev(j)}}
        tail   == IF trail THEN {2 * nbits + 1} ELSE {}
    IN  DigitalFile(init, SortedSeq(flips \cup tail))

\* the lines a capture may lack or leave without a transition
DegenerateClocks ==
    {NilFile, DigitalFile(0, <<>>), DigitalFile(1, <<>>), ClockLine(1, 2, FALSE)}
DegenerateEnables ==
    {NilFile, DigitalFile(0, <<>>), DigitalFile(1, <<>>), DigitalFile(1, <<1, 7>>)}
DegenerateMosis == {NilFile, DigitalFile(0, <<>>), DigitalFile(0, <<3>>)}
DegenerateMisos == {NilFile, DigitalFile(0, <<>>), DigitalFile(1, <<3>>)}

\* the times of the short captures, whose enable and data-out lines toggle anywhere
ShortTimes == 0..(2 * MaxShortEdges + 1)
ShortSeqs == IncSeqs(ShortTimes, 2)
ShortMisoTimes == {1, 2 * MaxShortEdges + 1}

\* the bytes a burst carries on the data lines
BytePool == {0, 165, 255}
MisoPool == {0, 90, 255}

\* the byte patterns a burst of n bytes carries on the data-out line
BurstPatterns(n) == IF n = 1 THEN {<<b>> : b \in 0..(ByteMod - 1)} ELSE [1..n -> BytePool]

\* the enable line of one chip-select burst of n bytes: it falls before the
\* first rising flank and rises after the last
BurstEnable(n) == DigitalFile(1, <<1, 2 * BitsPerByte * n + 2>>)

\* the times at which the enable line of a long capture may toggle
EnableTimes == {1, 2, 9, 11, 16, 17, 19, 21, 2 * WindowEdges - 1, 2 * WindowEdges + 1}
WindowSeqs == IncSeqs(EnableTimes, MaxEnableLen)

\* the data lines of the long captures, with several chip-select windows
WindowMosis ==
    {DigitalFile(0, <<2 * WindowEdges + 3>>),
     DigitalFile(1, <<2 * WindowEdges + 3>>),
     DigitalFile(0, <<17, 19, 2 * WindowEdges + 3>>),
     DigitalFile(0, <<3, 18>>)}
WindowMisos ==
    {DigitalFile(0, <<2 * WindowEdges + 3>>),
     DigitalFile(1, <<17, 2 * WindowEdges + 3>>)}

\* a variant that starts at index 0 whatever the initial level
FirstRisingAtZero(c) == 0

\* index of the first rising flank of a clock line, lines 54-57
FirstRisingOf(c) == IF c.InitialState # 0 THEN 1 ELSE 0

\* the times of the rising flanks of a clock line
RisingTimesOf(c) ==
    {At(c.Data, i) : i \in {j \in 0..(Len(c.Data) - 1) : j % ClockStride = FirstRisingOf(c)}}

\* the line is present and toggles once more after the clock's last rising flank
Trailing(c, line) ==
    /\ ~line.isNil
    /\ Len(line.Data) > 0
    /\ \A r \in RisingTimesOf(c) : r < line.Data[Len(line.Data)]

\* no transition of the line falls on a rising flank of the clock
NoTies(c, line) == {line.Data[k] : k \in 1..Len(line.Data)} \cap RisingTimesOf(c) = {}

\* every capture
AnyCapture(c, e, o, i) == TRUE

\* a capture that covers the clock: every line is recorded past the last rising flank
TrailingCapture(c, e, o, i) ==
    /\ ~c.isNil
    /\ Trailing(c, e) /\ Trailing(c, o) /\ Trailing(c, i)

\* a capture that covers the clock and has no transition on a rising flank
CleanCapture(c, e, o, i) ==
    /\ TrailingCapture(c, e, o, i)
    /\ NoTies(c, e) /\ NoTies(c, o) /\ NoTies(c, i)

(***************************************************************************)
(* State of one call of a file reader: ReadDigitalFile or ReadAnalogFile   *)
(* of src/saleae.go.                                                       *)
(***************************************************************************)
VARIABLES
    fn,                                 \* "digital", "analog", or "none"
    reader,                             \* the argument r and the bytes it yields
    bigEndian,                          \* byte order of the machine the code runs on
    rpc,                                \* "call", "validate", "data", "done", "panic"
    hdr,                                \* the decoded header
    file, rerr,                         \* the results
    dataStep                            \* history: the data-reading step was entered

readVars == <<fn, reader, bigEndian, rpc, hdr, file, rerr, dataStep>>

\* a nil *DigitalFile or *AnalogFile
NilResult == [isNil |-> TRUE]

\* no header decoded yet
NoHeader == [decoded |-> FALSE]

\* no reader is being called
ReaderIdle ==
    /\ fn = "none"
    /\ reader = [isNil |-> TRUE, bytes |-> <<>>]
    /\ bigEndian = FALSE
    /\ rpc = "idle"
    /\ hdr = NoHeader
    /\ file = NilResult /\ rerr = "nil"
    /\ dataStep = FALSE

(***************************************************************************)
(* State of one call of Scan.                                              *)
(***************************************************************************)
VARIABLES
    clock, enable, mosi, miso,          \* the arguments
    pc,                                 \* "start", "loop", "done", "panic"
    clkState, mosiState, misoState, enableState,
    timeStartForByte, currentMisoByte, currentMosiByte,
    misoBytes, mosiBytes, timings, startByteIdx, bitIdx,
    iclk, mosiLast, misoLast, enableLast, tMosi, tMiso, tEnable,
    txs, err,                           \* the results
    samples,                            \* history: the bits sampled so far
    visited                             \* history: the clock indices iterated over

args == <<clock, enable, mosi, miso>>
levels == <<clkState, mosiState, misoState, enableState>>
accum == <<timeStartForByte, currentMisoByte, currentMosiByte, misoBytes, mosiBytes,
           timings, startByteIdx, bitIdx>>
cursors == <<mosiLast, misoLast, enableLast, tMosi, tMiso, tEnable>>
scanVars == <<args, pc, levels, accum, cursors, iclk, txs, err, samples, visited>>
vars == <<scanVars, readVars>>

\* the state when Scan is entered with the four lines: every local holds its
\* zero value
Entered(c, e, o, i) ==
    /\ clock = c /\ enable = e /\ mosi = o /\ miso = i
    /\ pc = "start"
    /\ clkState = FALSE /\ mosiState = FALSE /\ misoState = FALSE /\ enableState = FALSE
    /\ timeStartForByte = 0 /\ currentMisoByte = 0 /\ currentMosiByte = 0
    /\ misoBytes = <<>> /\ mosiBytes = <<>> /\ timings = <<>>
    /\ startByteIdx = 0 /\ bitIdx = 0
    /\ iclk = 0 /\ mosiLast = 0 /\ misoLast = 0 /\ enableLast = 0
    /\ tMosi = 0 /\ tMiso = 0 /\ tEnable = 0
    /\ txs = <<>> /\ err = "nil"
    /\ samples = <<>>
    /\ visited = {}
    /\ ReaderIdle

\* a capture whose enable line toggles at most twice
FewWindows(c, e, o, i) == e.isNil \/ Len(e.Data) <= 2

\* the captures of a kind: "any", "few", "trailing" or "clean"
Admit(kind, c, e, o, i) ==
    IF kind = "any" THEN AnyCapture(c, e, o, i)
    ELSE IF kind = "few" THEN AnyCapture(c, e, o, i) /\ FewWindows(c, e, o, i)
    ELSE IF kind = "trailing" THEN TrailingCapture(c, e, o, i)
    ELSE CleanCapture(c, e, o, i)

\* Scan is entered with one of the captures of a kind: a capture with an
\* absent or empty line, a short capture, one burst, or a long capture
InitWith(kind) ==
    \/ \E c \in DegenerateClocks, e \in DegenerateEnables,
          o \in DegenerateMosis, i \in DegenerateMisos :
          Admit(kind, c, e, o, i) /\ Entered(c, e, o, i)
    \/ \E ci \in {0, 1}, ei \in {0, 1}, ed \in ShortSeqs,
          oi \in {0, 1}, od \in ShortSeqs \ {<<>>}, it \in ShortMisoTimes :
          LET c == ClockLine(ci, MaxShortEdges, FALSE)
              e == DigitalFile(ei, ed)
              o == DigitalFile(oi, od)
              i == DigitalFile(0, <<it>>)
          IN  Admit(kind, c, e, o, i) /\ Entered(c, e, o, i)
    \/ \E n \in 1..MaxBytes, ci \in {0, 1}, trail \in BOOLEAN, pi \in MisoPool :
          \E po \in BurstPatterns(n) :
             LET c == ClockLine(ci, BitsPerByte * n, FALSE)
                 e == BurstEnable(n)
                 o == PatternLine(po, 0, trail)
                 i == PatternLine([k \in 1..n |-> pi], 0, trail)
             IN  Admit(kind, c, e, o, i) /\ Entered(c, e, o, i)
    \/ \E ei \in {0, 1}, ed \in WindowSeqs, o \in WindowMosis, i \in WindowMisos :
          LET c == ClockLine(1, WindowEdges, FALSE)
              e == DigitalFile(ei, ed)
          IN  Admit(kind, c, e, o, i) /\ Entered(c, e, o, i)

Init == InitWith("any")

InitTrailing == InitWith("trailing")

InitFew == InitWith("few")

InitClean == InitWith("clean")

\* lines 42-45 dereference every argument; lines 61-63 read element 0 of the
\* three lines' Data
StartPanics ==
    \/ clock.isNil \/ mosi.isNil \/ miso.isNil \/ enable.isNil
    \/ Len(mosi.Data) = 0 \/ Len(miso.Data) = 0 \/ Len(enable.Data) = 0

\* a variant that validates its inputs and returns an error
StartReturnsError ==
    /\ pc = "start"
    /\ IF StartPanics
       THEN /\ pc' = "done"
            /\ err' = "invalid input"
            /\ UNCHANGED <<levels, iclk, cursors>>
       ELSE /\ pc' = "loop"
            /\ clkState' = (clock.InitialState # 0)
            /\ mosiState' = (mosi.InitialState # 0)
            /\ misoState' = (miso.InitialState # 0)
            /\ enableState' = (enable.InitialState # 0)
            /\ iclk' = IF clock.InitialState # 0 THEN 1 ELSE 0
            /\ mosiLast' = 0 /\ misoLast' = 0 /\ enableLast' = 0
            /\ tMosi' = At(mosi.Data, 0)
            /\ tMiso' = At(miso.Data, 0)
            /\ tEnable' = At(enable.Data, 0)
            /\ err' = err
    /\ UNCHANGED <<args, accum, txs, samples, visited>>
    /\ UNCHANGED readVars

\* lines 42-63
Start ==
    /\ pc = "start"
    /\ IF StartPanics
       THEN /\ pc' = "panic"
            /\ UNCHANGED <<levels, iclk, cursors>>
       ELSE /\ pc' = "loop"
            /\ clkState' = (clock.InitialState # 0)
            /\ mosiState' = (mosi.InitialState # 0)
            /\ misoState' = (miso.InitialState # 0)
            /\ enableState' = (enable.InitialState # 0)
            /\ iclk' = FirstRisingOf(clock)
            /\ mosiLast' = 0 /\ misoLast' = 0 /\ enableLast' = 0
            /\ tMosi' = At(mosi.Data, 0)
            /\ tMiso' = At(miso.Data, 0)
            /\ tEnable' = At(enable.Data, 0)
    /\ UNCHANGED <<args, accum, txs, err, samples, visited>>
    /\ UNCHANGED readVars

\* a variant that seals whether or not a byte was completed
HasCompleteByteAlways(bytes, from) == Len(SliceFrom(bytes, from)) >= 0

\* lines 70 and 110: the transaction in progress holds a complete byte
HasCompleteByte(bytes, from) == Len(SliceFrom(bytes, from)) > 0

\* a variant that hands the whole interval list to every record
SealedTxAllTimings(sdi, sdo, tm, from) ==
    TxSPI(SliceFrom(sdi, from), SliceFrom(sdo, from), tm)

\* a variant that leaves the intervals out of the record
SealedTxNoTimings(sdi, sdo, tm, from) ==
    TxSPI(SliceFrom(sdi, from), SliceFrom(sdo, from), <<>>)

\* lines 71-75 and 111-115: the record of the bytes completed since the last seal
SealedTx(sdi, sdo, tm, from) ==
    TxSPI(SliceFrom(sdi, from), SliceFrom(sdo, from), SliceFrom(tm, from))

\* a variant that takes the start time anew at every bit
StartForByteEveryBit(idx, now, old) == now

\* lines 94-96: the start time of the byte being assembled
StartForByte(idx, now, old) == IF idx = 0 THEN now ELSE old

\* the condition of the for statement of line 64
LoopCond == iclk < Len(clock.Data)

\* line 65
t == At(clock.Data, iclk)

\* the conditions of the inner loops of lines 66, 84 and 89
EnableCond == t > tEnable /\ enableLast < Len(enable.Data) - 1
MisoCond == t > tMiso /\ misoLast < Len(miso.Data) - 1
MosiCond == t > tMosi /\ mosiLast < Len(mosi.Data) - 1

\* lines 66-80: one iteration of the enable loop
EnableAdvance ==
    /\ pc = "loop" /\ LoopCond /\ EnableCond
    /\ enableLast' = enableLast + 1
    /\ tEnable' = At(enable.Data, enableLast + 1)
    /\ enableState' = ~enableState
    /\ IF ~enableState /\ HasCompleteByte(misoBytes, startByteIdx)
       THEN /\ txs' = Append(txs, SealedTx(misoBytes, mosiBytes, timings, startByteIdx))
            /\ startByteIdx' = Len(misoBytes)
            /\ currentMisoByte' = 0
            /\ bitIdx' = 0
       ELSE UNCHANGED <<txs, startByteIdx, currentMisoByte, bitIdx>>
    /\ UNCHANGED <<args, pc, clkState, mosiState, misoState, timeStartForByte,
                   currentMosiByte, misoBytes, mosiBytes, timings, iclk,
                   mosiLast, misoLast, tMosi, tMiso, err, samples, visited>>
    /\ UNCHANGED readVars

\* a variant that moves on to the next transition, not the next rising flank
SkipEdgeStrideOne ==
    /\ pc = "loop" /\ LoopCond /\ ~EnableCond
    /\ enableState
    /\ iclk' = iclk + 1
    /\ visited' = visited \cup {iclk}
    /\ UNCHANGED <<args, pc, levels, accum, cursors, txs, err, samples>>
    /\ UNCHANGED readVars

\* lines 81-83: the enable line is high, the flank is skipped
SkipEdge ==
    /\ pc = "loop" /\ LoopCond /\ ~EnableCond
    /\ enableState
    /\ iclk' = iclk + ClockStride
    /\ visited' = visited \cup {iclk}
    /\ UNCHANGED <<args, pc, levels, accum, cursors, txs, err, samples>>
    /\ UNCHANGED readVars

\* a variant that moves the cursor without toggling the tracked level
MisoAdvanceNoToggle ==
    /\ pc = "loop" /\ LoopCond /\ ~EnableCond
    /\ ~enableState
    /\ MisoCond
    /\ misoLast' = misoLast + 1
    /\ tMiso' = At(miso.Data, misoLast + 1)
    /\ UNCHANGED <<args, pc, levels, accum, iclk,
                   mosiLast, enableLast, tMosi, tEnable, txs, err, samples, visited>>
    /\ UNCHANGED readVars

\* lines 84-88: one iteration of the miso loop
MisoAdvance ==
    /\ pc = "loop" /\ LoopCond /\ ~EnableCond
    /\ ~enableState
    /\ MisoCond
    /\ misoLast' = misoLast + 1
    /\ tMiso' = At(miso.Data, misoLast + 1)
    /\ misoState' = ~misoState
    /\ UNCHANGED <<args, pc, clkState, mosiState, enableState, accum, iclk,
                   mosiLast, enableLast, tMosi, tEnable, txs, err, samples, visited>>
    /\ UNCHANGED readVars

\* lines 89-93: one iteration of the mosi loop
MosiAdvance ==
    /\ pc = "loop" /\ LoopCond /\ ~EnableCond
    /\ ~enableState
    /\ ~MisoCond
    /\ MosiCond
    /\ mosiLast' = mosiLast + 1
    /\ tMosi' = At(mosi.Data, mosiLast + 1)
    /\ mosiState' = ~mosiState
    /\ UNCHANGED <<args, pc, clkState, misoState, enableState, accum, iclk,
                   misoLast, enableLast, tMiso, tEnable, txs, err, samples, visited>>
    /\ UNCHANGED readVars

\* lines 94-108 and the iclk += 2 of line 64: one bit of each data line
SampleBit ==
    /\ pc = "loop" /\ LoopCond /\ ~EnableCond
    /\ ~enableState
    /\ ~MisoCond
    /\ ~MosiCond
    /\ LET start == StartForByte(bitIdx, t, timeStartForByte)
           curMiso == PackBit(currentMisoByte, misoState, bitIdx)
           curMosi == PackBit(currentMosiByte, mosiState, bitIdx)
           idx == bitIdx + 1
       IN  /\ timeStartForByte' = start
           /\ IF idx % BitsPerByte = 0
              THEN /\ timings' = Append(timings, Interval(start, t))
                   /\ misoBytes' = Append(misoBytes, curMiso)
                   /\ mosiBytes' = Append(mosiBytes, curMosi)
                   /\ currentMisoByte' = 0
                   /\ currentMosiByte' = 0
                   /\ bitIdx' = 0
              ELSE /\ currentMisoByte' = curMiso
                   /\ currentMosiByte' = curMosi
                   /\ bitIdx' = idx
                   /\ UNCHANGED <<timings, misoBytes, mosiBytes>>
    /\ samples' = Append(samples, [time |-> t, sdo |-> mosiState, sdi |-> misoState,
                                   en |-> enableState, idx |-> bitIdx])
    /\ iclk' = iclk + ClockStride
    /\ visited' = visited \cup {iclk}
    /\ UNCHANGED <<args, pc, levels, startByteIdx, cursors, txs, err>>
    /\ UNCHANGED readVars

\* a variant that returns without emitting the bytes left unsealed
FlushWithoutEmit ==
    /\ pc = "loop" /\ ~LoopCond
    /\ pc' = "done"
    /\ UNCHANGED <<args, levels, accum, cursors, iclk, txs, err, samples, visited>>
    /\ UNCHANGED readVars

\* lines 110-117: the clock is exhausted
Flush ==
    /\ pc = "loop" /\ ~LoopCond
    /\ txs' = IF HasCompleteByte(misoBytes, startByteIdx)
              THEN Append(txs, SealedTx(misoBytes, mosiBytes, timings, startByteIdx))
              ELSE txs
    /\ pc' = "done"
    /\ UNCHANGED <<args, levels, accum, cursors, iclk, err, samples, visited>>
    /\ UNCHANGED readVars

Next == Start \/ EnableAdvance \/ SkipEdge \/ MisoAdvance \/ MosiAdvance \/ SampleBit \/ Flush

Spec == Init /\ [][Next]_vars

\* Scan is sequential code: a step that can be taken is taken.  The
\* captures are those whose enable line toggles at most twice.
SpecFair == InitFew /\ [][Next]_vars /\ WF_vars(Next)

\* Scan on the captures that cover the clock
SpecTrailing == InitTrailing /\ [][Next]_vars

\* Scan on the captures that cover the clock and have no transition on a flank
SpecClean == InitClean /\ [][Next]_vars

(***************************************************************************)
(* The file readers ReadDigitalFile and ReadAnalogFile (src/saleae.go).    *)
(* A reader yields a finite sequence of bytes.  An integer field of a      *)
(* header is kept as its bytes in order of increasing weight, since 32 and *)
(* 64 bit values do not fit the integers of the model checker: a field is  *)
(* zero when all its bytes are, and only a count is turned into a number.  *)
(* A float64 is kept as the eight bytes of its bit pattern.                *)
(***************************************************************************)
\* largest number of elements a header of the inputs announces truthfully
MaxCount == 3

\* const digitalHeaderSize, saleae.go line 15
digitalHeaderSize == 44
\* unsafe.Sizeof(FileHeader{}): 8 + 4 + 4 bytes, saleae.go lines 14 and 47
fileHeaderSize == 16
\* unsafe.Sizeof(AnalogHeader{}): 16 + 4 * 8 bytes, saleae.go line 16
analogHeaderSize == 48
\* const FileTypeDigital, saleae.go line 22
FileTypeDigital == 0
\* const FileTypeAnalog, saleae.go line 23
FileTypeAnalog == 1
\* bytes of a float64, saleae.go lines 170 and 201
Float64Size == 8

\* var expectID: the bytes of <SALEAE>
expectID == <<60, 83, 65, 76, 69, 65, 69, 62>>

\* b[lo:hi] of a Go slice
Slice(b, lo, hi) == SubSeq(b, lo + 1, hi)

Reverse(s) == [k \in 1..Len(s) |-> s[Len(s) + 1 - k]]

\* binary.LittleEndian.Uint32 / Uint64 of the w bytes at b[off:]: the first
\* byte has the lowest weight
LittleEndian(b, off, w) == Slice(b, off, off + w)

\* the integer a machine reads from w bytes copied into its memory: the
\* first byte has the lowest weight on a little-endian machine and the
\* highest on a big-endian one
Native(b, off, w, big) ==
    IF big THEN Reverse(Slice(b, off, off + w)) ELSE Slice(b, off, off + w)

\* the integer field d holds the value v, 0 <= v < 256
IsInt(d, v) == d[1] = v /\ \A k \in 2..Len(d) : d[k] = 0

\* decodeFileHeader: the 16 bytes are copied over the struct
decodeFileHeader(b, big) ==
    [ID |-> Slice(b, 0, 8),
     Version |-> Native(b, 8, 4, big),
     Type |-> Native(b, 12, 4, big)]

\* decodeDigitalHeader: the header, and the number of bytes decoded
decodeDigitalHeader(b, big) ==
    [dh |-> [Info |-> decodeFileHeader(b, big),
             InitialState |-> LittleEndian(b, fileHeaderSize, 4),
             Begin |-> LittleEndian(b, fileHeaderSize + 4, 8),
             End |-> LittleEndian(b, fileHeaderSize + 4 + 8, 8),
             NumTransitions |-> LittleEndian(b, fileHeaderSize + 4 + 8 + 8, 8)],
     n |-> fileHeaderSize + 4 + 8 + 8 + 8]

\* decodeAnalogHeader: the header, and the number of bytes decoded
decodeAnalogHeader(b, big) ==
    [ah |-> [Info |-> decodeFileHeader(b, big),
             Begin |-> LittleEndian(b, fileHeaderSize, 8),
             SampleRate |-> LittleEndian(b, fileHeaderSize + 8, 8),
             Downsample |-> LittleEndian(b, fileHeaderSize + 8 + 8, 8),
             NumSamples |-> LittleEndian(b, fileHeaderSize + 8 + 8 + 8, 8)],
     n |-> fileHeaderSize + 8 + 8 + 8 + 8]

\* a variant that does not look at the type field
ValidateWithoutType(fh) ==
    IF fh.ID # expectID THEN "expected file header id <SALEAE>"
    ELSE IF ~IsInt(fh.Version, 0) THEN "expected file header version 0"
    ELSE "nil"

\* a variant that does not look at the version field
ValidateWithoutVersion(fh) ==
    IF fh.ID # expectID THEN "expected file header id <SALEAE>"
    ELSE IF ~IsInt(fh.Type, 0) THEN "expected file header type in range 0..1"
    ELSE "nil"

\* func (fh *FileHeader) Validate() error
Validate(fh) ==
    IF fh.ID # expectID THEN "expected file header id <SALEAE>"
    ELSE IF ~IsInt(fh.Version, 0) THEN "expected file header version 0"
    ELSE IF ~IsInt(fh.Type, 0) THEN "expected file header type in range 0..1"
    ELSE "nil"

\* the error of io.ReadFull asked for `want` bytes of a reader that has
\* `avail` bytes left
ReadFull(avail, want) ==
    IF avail >= want THEN "nil"
    ELSE IF avail = 0 THEN "EOF" ELSE "unexpected EOF"

\* the count fits 16 bits; larger counts are beyond every input's length
FitsInt(d) == \A k \in 3..Len(d) : d[k] = 0
ToInt(d) == d[1] + ByteMod * d[2]

\* the elements read over the memory of file.Data: cnt groups of 8 bytes
\* after the header, as they come
RawData(b, from, cnt) ==
    [k \in 1..cnt |-> Slice(b, from + Float64Size * (k - 1), from + Float64Size * k)]

\* lines 169-175 and 200-206: make, the address of element 0, io.ReadFull.
\* The result is a crash, an error or the elements read.
ReadElements(b, from, count) ==
    IF ~FitsInt(count)
    THEN {[rpc |-> "panic", err |-> "nil", data |-> <<>>]}    \* makeslice: len out of range
         \cup (IF count[Len(count)] = 0
               THEN {[rpc |-> "done", err |-> "unexpected EOF", data |-> <<>>]}
               ELSE {})
    ELSE IF ToInt(count) = 0
    THEN {[rpc |-> "panic", err |-> "nil", data |-> <<>>]}    \* &file.Data[0] of an empty slice
    ELSE IF ReadFull(Len(b) - from, ToInt(count) * Float64Size) # "nil"
    THEN {[rpc |-> "done", data |-> <<>>,
           err |-> ReadFull(Len(b) - from, ToInt(count) * Float64Size)]}
    ELSE {[rpc |-> "done", err |-> "nil", data |-> RawData(b, from, ToInt(count))]}

\* the byte streams given to the readers
IdPool == {expectID, <<60, 83, 65, 76, 69, 65, 69, 63>>}
Int32Pool == {<<0, 0, 0, 0>>, <<1, 0, 0, 0>>, <<0, 0, 0, 1>>, <<255, 255, 255, 255>>}
Count8(k) == <<k, 0, 0, 0, 0, 0, 0, 0>>
CountPool == {Count8(k) : k \in 0..MaxCount} \cup {<<0, 0, 0, 0, 0, 0, 0, 1>>}
One64 == <<0, 0, 0, 0, 0, 0, 240, 63>>
Payload(m) == [j \in 1..m |-> (7 * j) % ByteMod]
PayloadLens == {Float64Size * k : k \in 0..MaxCount} \cup {Float64Size \div 2}
HeaderCuts == {0, fileHeaderSize - 6, digitalHeaderSize - 1}

DigitalStream(id, ver, typ, num, m) ==
    id \o ver \o typ \o <<1, 0, 0, 0>> \o Count8(0) \o One64 \o num \o Payload(m)

AnalogStream(id, ver, typ, num, m) ==
    id \o ver \o typ \o Count8(0) \o Count8(1) \o Count8(1) \o num \o Payload(m)

\* Scan is not running
ScanIdle ==
    /\ clock = NilFile /\ enable = NilFile /\ mosi = NilFile /\ miso = NilFile
    /\ pc = "idle"
    /\ clkState = FALSE /\ mosiState = FALSE /\ misoState = FALSE /\ enableState = FALSE
    /\ timeStartForByte = 0 /\ currentMisoByte = 0 /\ currentMosiByte = 0
    /\ misoBytes = <<>> /\ mosiBytes = <<>> /\ timings = <<>>
    /\ startByteIdx = 0 /\ bitIdx = 0
    /\ iclk = 0 /\ mosiLast = 0 /\ misoLast = 0 /\ enableLast = 0
    /\ tMosi = 0 /\ tMiso = 0 /\ tEnable = 0
    /\ txs = <<>> /\ err = "nil"
    /\ samples = <<>>
    /\ visited = {}

\* a reader function is called with a nil reader or with a stream, whole
\* or cut inside its header
InitRead ==
    /\ ScanIdle
    /\ fn \in {"digital", "analog"}
    /\ bigEndian \in BOOLEAN
    /\ \E nil \in BOOLEAN, id \in IdPool, ver \in Int32Pool, typ \in Int32Pool,
          num \in CountPool, m \in PayloadLens, whole \in BOOLEAN, cut \in HeaderCuts :
          LET full == IF fn = "digital" THEN DigitalStream(id, ver, typ, num, m)
                      ELSE AnalogStream(id, ver, typ, num, m)
          IN  reader = [isNil |-> nil,
                        bytes |-> IF whole THEN full ELSE Slice(full, 0, cut)]
    /\ rpc = "call"
    /\ hdr = NoHeader
    /\ file = NilResult /\ rerr = "nil"
    /\ dataStep = FALSE

\* return nil, err
ReturnError(e) ==
    /\ rpc' = "done"
    /\ file' = NilResult
    /\ rerr' = e

\* ReadDigitalFile, lines 148-161
ReadDigitalHeader ==
    /\ fn = "digital" /\ rpc = "call"
    /\ IF reader.isNil
       THEN ReturnError("got nil reader") /\ UNCHANGED hdr
       ELSE IF ReadFull(Len(reader.bytes), digitalHeaderSize) # "nil"
       THEN ReturnError(ReadFull(Len(reader.bytes), digitalHeaderSize)) /\ UNCHANGED hdr
       ELSE LET buf == Slice(reader.bytes, 0, digitalHeaderSize)
                d == decodeDigitalHeader(buf, bigEndian)
            IN  /\ hdr' = d.dh
                /\ rpc' = IF d.n # Len(buf) THEN "panic" ELSE "validate"
                /\ UNCHANGED <<file, rerr>>
    /\ UNCHANGED <<fn, reader, bigEndian, dataStep, scanVars>>

\* ReadDigitalFile, lines 162-168
ValidateDigital ==
    /\ fn = "digital" /\ rpc = "validate"
    /\ IF Validate(hdr.Info) # "nil"
       THEN ReturnError(Validate(hdr.Info))
       ELSE IF ~IsInt(hdr.Info.Version, FileTypeDigital)
       THEN ReturnError("file type mismatch, expected 0")
       ELSE rpc' = "data" /\ UNCHANGED <<file, rerr>>
    /\ UNCHANGED <<fn, reader, bigEndian, hdr, dataStep, scanVars>>

\* ReadDigitalFile, lines 169-175
ReadDigitalData ==
    /\ fn = "digital" /\ rpc = "data"
    /\ dataStep' = TRUE
    /\ \E res \in ReadElements(reader.bytes, digitalHeaderSize, hdr.NumTransitions) :
          /\ rpc' = res.rpc
          /\ rerr' = res.err
          /\ file' = IF res.rpc = "done" /\ res.err = "nil"
                     THEN [isNil |-> FALSE, Header |-> hdr, Data |-> res.data]
                     ELSE NilResult
    /\ UNCHANGED <<fn, reader, bigEndian, hdr, scanVars>>

\* ReadAnalogFile, lines 179-192
ReadAnalogHeader ==
    /\ fn = "analog" /\ rpc = "call"
    /\ IF reader.isNil
       THEN ReturnError("got nil reader") /\ UNCHANGED hdr
       ELSE IF ReadFull(Len(reader.bytes), analogHeaderSize) # "nil"
       THEN ReturnError(ReadFull(Len(reader.bytes), analogHeaderSize)) /\ UNCHANGED hdr
       ELSE LET buf == Slice(reader.bytes, 0, analogHeaderSize)
                d == decodeAnalogHeader(buf, bigEndian)
            IN  /\ hdr' = d.ah
                /\ rpc' = IF d.n # Len(buf) THEN "panic" ELSE "validate"
                /\ UNCHANGED <<file, rerr>>
    /\ UNCHANGED <<fn, reader, bigEndian, dataStep, scanVars>>

\* ReadAnalogFile, lines 193-206: the validation, the file type check and
\* the reading of the samples
ReadAnalogBody ==
    /\ fn = "analog" /\ rpc = "validate"
    /\ IF Validate(hdr.Info) # "nil"
       THEN ReturnError(Validate(hdr.Info)) /\ UNCHANGED dataStep
       ELSE IF ~IsInt(hdr.Info.Version, FileTypeAnalog)
       THEN ReturnError("file type mismatch, expected 1") /\ UNCHANGED dataStep
       ELSE /\ dataStep' = TRUE
            /\ \E res \in ReadElements(reader.bytes, analogHeaderSize, hdr.NumSamples) :
                  /\ rpc' = res.rpc
                  /\ rerr' = res.err
                  /\ file' = IF res.rpc = "done" /\ res.err = "nil"
                             THEN [isNil |-> FALSE, Header |-> hdr, Data |-> res.data]
                             ELSE NilResult
    /\ UNCHANGED <<fn, reader, bigEndian, hdr, scanVars>>

NextRead ==
    ReadDigitalHeader \/ ValidateDigital \/ ReadDigitalData
        \/ ReadAnalogHeader \/ ReadAnalogBody

\* one call of a file reader
SpecRead == InitRead /\ [][NextRead]_vars

(***************************************************************************)
(* Notions of the specification the properties are stated with.            *)
(***************************************************************************)
\* the level of a line at time x: its initial level XOR the parity of the
\* number of its transitions with a timestamp <= x
TrueLevel(line, x) ==
    (line.InitialState # 0) #
    (Cardinality({k \in 1..Len(line.Data) : line.Data[k] <= x}) % 2 = 1)

\* index of the clock's first rising flank
FirstRising == FirstRisingOf(clock)

\* the indices of the clock transitions that go from low to high
RisingIdx == {i \in 0..(Len(clock.Data) - 1) : i % ClockStride = FirstRising}

RisingTimes == RisingTimesOf(clock)

\* the rising flanks the scan has gone past
ProcessedTimes == {At(clock.Data, i) : i \in {j \in RisingIdx : j < iclk}}

SampleTimes == {samples[j].time : j \in 1..Len(samples)}

TransitionTimes(line) == {line.Data[k] : k \in 1..Len(line.Data)}

AllPresent == ~clock.isNil /\ ~enable.isNil /\ ~mosi.isNil /\ ~miso.isNil

RECURSIVE PackTrue(_, _, _)
\* bits j..8 of the byte whose first bit is clocked by clock transition first,
\* each the line's level at its rising flank, MSB first
PackTrue(line, first, j) ==
    b2u8(TrueLevel(line, At(clock.Data, first + ClockStride * (j - 1)))) * Pow2(BitsPerByte - j)
    + (IF j = BitsPerByte THEN 0 ELSE PackTrue(line, first, j + 1))

\* the bytes the line carries over all the rising flanks of the clock
ExpectedBytes(line) ==
    [k \in 1..(Cardinality(RisingIdx) \div BitsPerByte) |->
        PackTrue(line, FirstRising + ClockStride * BitsPerByte * (k - 1), 1)]

\* the intervals of a record are increasing and do not overlap
IntervalsOrdered(tx) ==
    /\ \A k \in 1..Len(tx.timings) : tx.timings[k].start <= tx.timings[k].end
    /\ \A k \in 1..(Len(tx.timings) - 1) : tx.timings[k].end < tx.timings[k + 1].start

(***************************************************************************)
(* C1.  Round-trip framing.                                                *)
(***************************************************************************)
\* one chip-select burst of N >= 1 complete bytes: enable falls before the
\* first rising flank and rises after the last, its only two transitions
SingleBurst ==
    /\ AllPresent
    /\ enable.InitialState # 0
    /\ Len(enable.Data) = 2
    /\ RisingIdx # {}
    /\ Cardinality(RisingIdx) % BitsPerByte = 0
    /\ \A r \in RisingTimes : enable.Data[1] < r /\ r < enable.Data[2]

\* C1: for a single chip-select burst of 8*N rising flanks, Scan returns
\* exactly one transaction whose SDO and SDI are the N bytes the data lines
\* carry, MSB first, by the level rule.
C1_RoundTrip ==
    SingleBurst =>
        /\ pc # "panic"
        /\ pc = "done" =>
              /\ Len(txs) = 1
              /\ txs[1].SDO = ExpectedBytes(mosi)
              /\ txs[1].SDI = ExpectedBytes(miso)

(***************************************************************************)
(* C2.  The concrete scenario of the specification (times doubled).        *)
(***************************************************************************)
ScenarioCapture ==
    /\ AllPresent
    /\ clock.InitialState # 0
    /\ RisingTimes = {2, 4, 6, 8, 10, 12, 14, 16}
    /\ enable = DigitalFile(1, <<1, 18>>)
    /\ mosi.InitialState = 0
    /\ ExpectedBytes(mosi) = <<165>>
    /\ miso = DigitalFile(0, <<>>)

\* C2: on the scenario capture Scan returns, without failing, the single
\* transaction SDO = [0xA5], SDI = [0x00] with the one interval [1, 8].
C2_Scenario ==
    ScenarioCapture =>
        /\ pc # "panic"
        /\ pc = "done" => txs = <<TxSPI(<<0>>, <<165>>, <<Interval(2, 16)>>)>>

(***************************************************************************)
(* C3.  Partial-byte discard.                                              *)
(***************************************************************************)
\* C3: a step that seals a transaction on a deassertion while 1..7 bits of a
\* partial byte are accumulated resets the bit index and both accumulators
\* (the seal at the end of the capture is followed by no sampling).
C3_PartialByteDiscard ==
    [][(Len(txs') = Len(txs) + 1 /\ bitIdx \in 1..(BitsPerByte - 1) /\ pc' # "done")
          => (bitIdx' = 0 /\ currentMisoByte' = 0 /\ currentMosiByte' = 0)]_vars

(***************************************************************************)
(* C4.  Byte-count bound.                                                  *)
(***************************************************************************)
\* the enable line is asserted (low) from time u to time v
AssertedThroughout(u, v) ==
    \A x \in (IF u <= v THEN u ELSE v)..(IF u <= v THEN v ELSE u) : ~TrueLevel(enable, x)

\* the bits sampled inside the asserted window in which the record ends
WindowBits(tx) ==
    Cardinality({j \in 1..Len(samples) :
                    AssertedThroughout(samples[j].time, tx.timings[Len(tx.timings)].end)})

\* C4: no emitted transaction holds more bytes, on either line, than
\* floor(b / 8), b the number of bits sampled in its own asserted window.
C4_ByteCountBound ==
    \A k \in 1..Len(txs) :
        Len(txs[k].timings) > 0 =>
            /\ Len(txs[k].SDO) <= WindowBits(txs[k]) \div BitsPerByte
            /\ Len(txs[k].SDI) <= WindowBits(txs[k]) \div BitsPerByte

(***************************************************************************)
(* C5.  Multi-transaction ordering.                                        *)
(***************************************************************************)
\* the rising flanks strictly between two times
RisingBetween(u, v) == {r \in RisingTimes : u < r /\ r < v}

\* two chip-select bursts separated by a deassertion, each clocking at least
\* one byte; the capture may end inside the second burst
TwoBursts ==
    /\ AllPresent
    /\ enable.InitialState # 0
    /\ Len(enable.Data) \in {3, 4}
    /\ TransitionTimes(enable) \cap RisingTimes = {}
    /\ Cardinality(RisingBetween(enable.Data[1], enable.Data[2])) >= BitsPerByte
    /\ LET close == IF Len(enable.Data) = 4 THEN enable.Data[4]
                    ELSE clock.Data[Len(clock.Data)] + 1
       IN  Cardinality(RisingBetween(enable.Data[3], close)) >= BitsPerByte
    /\ Len(mosi.Data) > 0 /\ Len(miso.Data) > 0

\* C5: for two bursts Scan returns exactly two records, in temporal order,
\* with increasing intervals that do not overlap.
C5_TwoTransactions ==
    TwoBursts =>
        /\ pc # "panic"
        /\ pc = "done" =>
              /\ Len(txs) = 2
              /\ IntervalsOrdered(txs[1])
              /\ IntervalsOrdered(txs[2])
              /\ txs[1].timings[Len(txs[1].timings)].end < txs[2].timings[1].start

(***************************************************************************)
(* C6.  No sampling while deselected.                                      *)
(***************************************************************************)
\* C6: no bit is sampled at a rising flank at which the enable line is high.
C6_NoSampleWhileDeselected ==
    \A j \in 1..Len(samples) : ~TrueLevel(enable, samples[j].time)

(***************************************************************************)
(* C7.  Sampling level semantics.                                          *)
(***************************************************************************)
\* C7: at every sampled flank the levels used for data-out, data-in and
\* enable are the lines' levels at that time, every transition counted.
C7_SampledLevels ==
    \A j \in 1..Len(samples) :
        /\ samples[j].sdo = TrueLevel(mosi, samples[j].time)
        /\ samples[j].sdi = TrueLevel(miso, samples[j].time)
        /\ samples[j].en = TrueLevel(enable, samples[j].time)

(***************************************************************************)
(* C8.  Tie-break.                                                         *)
(***************************************************************************)
\* C8: an enable transition at the very time of a rising flank is resolved
\* before the flank: after a deassertion the flank's bit is not sampled,
\* after an assertion it is.
C8_TieBreak ==
    \A r \in ProcessedTimes \cap TransitionTimes(enable) :
        IF TrueLevel(enable, r) THEN r \notin SampleTimes ELSE r \in SampleTimes

(***************************************************************************)
(* C9.  Error contract on absent or empty input.                           *)
(***************************************************************************)
AbsentOrEmpty ==
    \E line \in {clock, enable, mosi, miso} : line.isNil \/ Len(line.Data) = 0

\* C9: with a line absent or without transitions Scan neither crashes nor
\* succeeds: it returns an error.
C9_ErrorOnAbsentInput ==
    AbsentOrEmpty =>
        /\ pc # "panic"
        /\ pc = "done" => err # "nil"

(***************************************************************************)
(* C10.  Error on an exhausted line.                                       *)
(***************************************************************************)
\* a rising flank was processed (enable) or sampled (data lines) after the
\* last recorded transition of the line: its cursor had nothing left
Exhausted(line, used) ==
    /\ Len(line.Data) > 0
    /\ \E r \in used : r > line.Data[Len(line.Data)]

\* C10: a scan that met an exhausted line returns an error and no
\* transactions.
C10_ErrorOnExhaustedLine ==
    (pc = "done" /\ AllPresent
        /\ (\/ Exhausted(enable, ProcessedTimes)
            \/ Exhausted(mosi, SampleTimes)
            \/ Exhausted(miso, SampleTimes)))
    => (err # "nil" /\ txs = <<>>)

(***************************************************************************)
(* C11.  Idle enable.                                                      *)
(***************************************************************************)
\* the time of the last clock transition: the end of the capture
CaptureEnd == IF Len(clock.Data) = 0 THEN 0 ELSE clock.Data[Len(clock.Data)]

\* the enable line starts high and does not go low before the capture ends
NeverAsserts ==
    /\ AllPresent
    /\ enable.InitialState # 0
    /\ \A x \in TransitionTimes(enable) : x > CaptureEnd

\* C11: with an enable line that never asserts, whatever the clock and the
\* data lines hold, Scan returns no transaction and no error.
C11_IdleEnable ==
    NeverAsserts =>
        /\ pc # "panic"
        /\ pc = "done" => (txs = <<>> /\ err = "nil")

\* the same with every line holding at least one transition
C11_IdleEnableNonEmpty ==
    (NeverAsserts /\ ~AbsentOrEmpty) =>
        /\ pc # "panic"
        /\ pc = "done" => (txs = <<>> /\ err = "nil")

C11_IdleWitness == NeverAsserts /\ ~AbsentOrEmpty /\ pc = "done" /\ Cardinality(visited) >= 2

(***************************************************************************)
(* C12.  One transaction per asserted window.                              *)
(***************************************************************************)
\* C12: the bits of every emitted record were sampled in one asserted
\* window: the enable line is low from the flank of the first bit of the
\* record's first byte to the flank of the last bit of its last byte, also
\* when an earlier window clocked fewer than eight bits.
C12_OneWindowPerRecord ==
    \A k \in 1..Len(txs) :
        Len(txs[k].timings) > 0 =>
            AssertedThroughout(txs[k].timings[1].start,
                               txs[k].timings[Len(txs[k].timings)].end)

(***************************************************************************)
(* C13.  Interval correctness.                                             *)
(***************************************************************************)
\* the samples that completed a byte: those that filled the eighth bit
CompletedAt == {j \in 1..Len(samples) : samples[j].idx = BitsPerByte - 1}

\* the sample that completed the k-th byte
KthCompleted(k) ==
    CHOOSE j \in CompletedAt : Cardinality({i \in CompletedAt : i <= j}) = k

\* C13: the interval of every completed byte runs from the time of the flank
\* that sampled its first (most significant) bit to the time of the flank
\* that sampled its eighth bit, and the records hold these intervals.
C13_IntervalCorrectness ==
    /\ Len(timings) = Cardinality(CompletedAt)
    /\ \A k \in 1..Len(timings) :
          LET last == KthCompleted(k)
              first == last - (BitsPerByte - 1)
          IN /\ first >= 1
             /\ samples[first].idx = 0
             /\ timings[k] = Interval(samples[first].time, samples[last].time)
    /\ \A n \in 1..Len(txs) : \A m \in 1..Len(txs[n].timings) :
          \E k \in 1..Len(timings) : txs[n].timings[m] = timings[k]

\* two bytes were completed and some sampled bits belong to no byte
C13_Witness ==
    /\ pc = "done"
    /\ Len(timings) >= 2
    /\ Len(txs) >= 1
    /\ Len(samples) > BitsPerByte * Len(timings)

(***************************************************************************)
(* C14.  Output ordering.                                                  *)
(***************************************************************************)
\* C14: the records are in strictly increasing time order, each ending
\* before the next starts, and inside a record every interval has its start
\* at or before its end and ends before the next interval starts.
C14_OutputOrdering ==
    /\ \A k \in 1..(Len(txs) - 1) : FLess(EndTime(txs[k]), StartTime(txs[k + 1]))
    /\ \A k \in 1..Len(txs) : IntervalsOrdered(txs[k])

\* a scan that returned several records
C14_Witness == pc = "done" /\ Len(txs) >= 2

(***************************************************************************)
(* C15.  Length invariant.                                                 *)
(***************************************************************************)
\* C15: at every moment the two byte lists and the interval list are of one
\* length, and so are the three lists of every emitted record.
C15_LengthInvariant ==
    /\ Len(mosiBytes) = Len(misoBytes)
    /\ Len(timings) = Len(misoBytes)
    /\ \A k \in 1..Len(txs) :
          /\ Len(txs[k].SDO) = Len(txs[k].SDI)
          /\ Len(txs[k].timings) = Len(txs[k].SDI)

\* a record of two bytes was emitted
C15_Witness == \E k \in 1..Len(txs) : Len(txs[k].SDI) >= 2

(***************************************************************************)
(* C16.  Non-empty emission.                                               *)
(***************************************************************************)
\* C16: every record appended to the output, at a deassertion or at the
\* final flush, holds at least one byte on each data line, and as long as
\* no byte was completed there is no record.
C16_NonEmptyEmission ==
    /\ \A k \in 1..Len(txs) : Len(txs[k].SDO) >= 1 /\ Len(txs[k].SDI) >= 1
    /\ Len(misoBytes) = 0 => txs = <<>>

\* the scan closed a window that sampled bits but completed no byte,
\* emitting nothing for it, and its only record comes from the final flush
C16_Witness ==
    /\ pc = "done"
    /\ Len(txs) = 1
    /\ startByteIdx = 0
    /\ enable.InitialState = 0
    /\ enableLast >= 2
    /\ \E j \in 1..Len(samples) : samples[j].time < enable.Data[1]

(***************************************************************************)
(* C17.  Derived times.                                                    *)
(***************************************************************************)
\* the record of the bytes completed since the last seal, emitted or not
PendingTx == SealedTx(misoBytes, mosiBytes, timings, startByteIdx)

\* the records StartTime and EndTime are applied to
TimedRecords == {txs[k] : k \in 1..Len(txs)} \cup {PendingTx}

\* C17: StartTime is the start of a record's first interval and EndTime the
\* end of its last one, both are NaN for a record without interval, and
\* every record emitted by Scan has both defined with StartTime <= EndTime:
\* the times of the flanks of its first and of its last bit.
C17_DerivedTimes ==
    /\ \A tx \in TimedRecords :
          IF Len(tx.timings) = 0
          THEN StartTime(tx).nan /\ EndTime(tx).nan
          ELSE /\ StartTime(tx) = Float64(Head(tx.timings).start)
               /\ EndTime(tx) = Float64(tx.timings[Len(tx.timings)].end)
    /\ \A k \in 1..Len(txs) :
          /\ ~StartTime(txs[k]).nan
          /\ ~EndTime(txs[k]).nan
          /\ FLeq(StartTime(txs[k]), EndTime(txs[k]))
    /\ (pc = "done" /\ txs # <<>>) =>
          /\ StartTime(txs[1]) =
                Float64(samples[KthCompleted(1) - (BitsPerByte - 1)].time)
          /\ EndTime(txs[Len(txs)]) =
                Float64(samples[KthCompleted(Len(timings))].time)

\* Scan returned a record of two intervals
C17_Witness ==
    /\ pc = "done"
    /\ \E k \in 1..Len(txs) : Len(txs[k].timings) >= 2

\* a record was emitted and no byte was completed since: the record in
\* progress has no interval
C17_WitnessNaN ==
    /\ Len(txs) >= 1
    /\ Len(PendingTx.timings) = 0
    /\ StartTime(PendingTx) = NaN

(***************************************************************************)
(* C18.  A window without a complete byte.                                 *)
(***************************************************************************)
\* the step processes a deassertion of the enable line that closes a window
\* in which no byte was completed
DeassertsWithoutByte ==
    /\ pc = "loop"
    /\ ~enableState
    /\ enableState'
    /\ Len(misoBytes) = startByteIdx

\* C18, as claimed: a window closed by a deassertion before it completed a
\* byte is reported as a record with empty byte sequences, without error.
C18_EmptyRecordReported ==
    [][DeassertsWithoutByte =>
          /\ Len(txs') = Len(txs) + 1
          /\ txs'[Len(txs')].SDO = <<>>
          /\ txs'[Len(txs')].SDI = <<>>
          /\ err' = "nil"]_vars

\* C18, amended: a window closed by a deassertion before it completed a byte
\* leaves the output as it was: no record is appended for it, and no error
\* is raised.
C18_NoRecordForEmptyWindow ==
    [][DeassertsWithoutByte =>
          /\ txs' = txs
          /\ err' = "nil"
          /\ pc' = "loop"]_vars

\* the first window sampled bits, was closed by a deassertion, and the
\* output is still empty
C18_Witness ==
    /\ pc = "loop"
    /\ enable.InitialState = 0
    /\ enableLast = 1
    /\ enableState
    /\ samples # <<>>
    /\ txs = <<>>

(***************************************************************************)
(* C20.  Rising-edge selection.                                            *)
(***************************************************************************)
\* the clock transition of index i takes the line from low to high
RisesAt(i) ==
    /\ TrueLevel(clock, At(clock.Data, i))
    /\ IF i = 0 THEN clock.InitialState = 0
                ELSE ~TrueLevel(clock, At(clock.Data, i - 1))

\* the indices of all the rising flanks of the clock
AllRising == {i \in 0..(Len(clock.Data) - 1) : RisesAt(i)}

\* C20: the clock transitions Scan iterates over are exactly the rising
\* flanks, in order and none skipped: the odd indices when the clock starts
\* high, the even ones when it starts low, and all of them once it returns.
C20_RisingEdgeSelection ==
    /\ visited = {i \in AllRising : i < iclk}
    /\ \A i \in visited : i % 2 = (IF clock.InitialState # 0 THEN 1 ELSE 0)
    /\ pc = "done" => visited = AllRising

\* Scan returned after iterating over the flanks of a clock that starts high
C20_Witness ==
    /\ pc = "done"
    /\ clock.InitialState # 0
    /\ Cardinality(visited) >= 3

(***************************************************************************)
(* C21.  Seal step.                                                        *)
(***************************************************************************)
RECURSIVE SealedBytes(_)
\* the number of bytes held by a sequence of records
SealedBytes(recs) ==
    IF recs = <<>> THEN 0
    ELSE Len(Head(recs).SDI) + SealedBytes(Tail(recs))

\* the step consumes an enable transition that deasserts the line
FlipsToDeasserted == pc = "loop" /\ ~enableState /\ enableState'

\* the step consumes an enable transition that asserts the line
FlipsToAsserted == pc = "loop" /\ enableState /\ ~enableState'

\* C21: a consumed enable transition that deasserts the line while a byte
\* was completed since the previous seal appends exactly one record, made of
\* the bytes and intervals completed since that seal; one that asserts the
\* line appends nothing; no step changes or removes a record already there.
C21_SealStep ==
    [][/\ (FlipsToDeasserted /\ Len(misoBytes) > SealedBytes(txs)) =>
             txs' = Append(txs, [SDO |-> SliceFrom(mosiBytes, SealedBytes(txs)),
                                 SDI |-> SliceFrom(misoBytes, SealedBytes(txs)),
                                 timings |-> SliceFrom(timings, SealedBytes(txs))])
       /\ FlipsToAsserted => txs' = txs
       /\ Len(txs') >= Len(txs)
       /\ SubSeq(txs', 1, Len(txs)) = txs]_vars

\* inside the loop, a second record was sealed by a deassertion: the line
\* was asserted again after the first seal
C21_Witness ==
    /\ pc = "loop"
    /\ Len(txs) >= 2
    /\ enableState

(***************************************************************************)
(* C22.  End-of-capture flush and byte conservation.                       *)
(***************************************************************************)
RECURSIVE Flatten(_)
\* the concatenation of a sequence of sequences
Flatten(ss) == IF ss = <<>> THEN <<>> ELSE Head(ss) \o Flatten(Tail(ss))

\* the data-out bytes, data-in bytes and intervals of the records, in order
EmittedSDO == Flatten([k \in 1..Len(txs) |-> txs[k].SDO])
EmittedSDI == Flatten([k \in 1..Len(txs) |-> txs[k].SDI])
EmittedTimings == Flatten([k \in 1..Len(txs) |-> txs[k].timings])

\* C22: once the clock is exhausted the completed bytes not yet sealed are
\* emitted as the last record, so that the records returned, concatenated
\* in output order, are the completed data-out bytes, data-in bytes and
\* intervals in completion order, each in exactly one record; before the
\* return the records hold the bytes completed up to the last seal.
C22_ByteConservation ==
    /\ pc = "done" =>
          /\ EmittedSDO = mosiBytes
          /\ EmittedSDI = misoBytes
          /\ EmittedTimings = timings
    /\ pc # "done" =>
          /\ EmittedSDO = SubSeq(mosiBytes, 1, startByteIdx)
          /\ EmittedSDI = SubSeq(misoBytes, 1, startByteIdx)
          /\ EmittedTimings = SubSeq(timings, 1, startByteIdx)

\* Scan returned a record sealed by a deassertion followed by a record
\* emitted by the final flush
C22_Witness ==
    /\ pc = "done"
    /\ Len(txs) >= 2
    /\ startByteIdx > 0
    /\ startByteIdx < Len(misoBytes)

(***************************************************************************)
(* C23.  MSB-first packing and bit-index range.                            *)
(***************************************************************************)
RECURSIVE PackLastEight(_, _, _)
\* the MSB-first packing of the eight bits sampled up to the sample `last`:
\* the j-th of them has weight 2^(8-j); sdo selects the data-out line
PackLastEight(sdo, last, j) ==
    LET s == samples[last - BitsPerByte + j]
    IN  b2u8(IF sdo THEN s.sdo ELSE s.sdi) * Pow2(BitsPerByte - j)
        + (IF j = BitsPerByte THEN 0 ELSE PackLastEight(sdo, last, j + 1))

\* the bit index is in 0..7 in every state and at every sampled bit
C23_IndexRange ==
    /\ bitIdx \in 0..(BitsPerByte - 1)
    /\ \A j \in 1..Len(samples) : samples[j].idx \in 0..(BitsPerByte - 1)

\* the data-in bytes are the packing of their last eight sampled bits
C23_PackingSDI ==
    \A k \in 1..Len(misoBytes) :
        KthCompleted(k) >= BitsPerByte
        /\ misoBytes[k] = PackLastEight(FALSE, KthCompleted(k), 1)

\* C23: the bit index is always in 0..7, and every byte appended on either
\* line is the MSB-first packing of exactly the last eight bits sampled on
\* that line, the first of them at weight 2^7.
C23_MsbFirstPacking ==
    /\ C23_IndexRange
    /\ Len(mosiBytes) = Cardinality(CompletedAt)
    /\ \A k \in 1..Len(mosiBytes) :
          /\ KthCompleted(k) >= BitsPerByte
          /\ mosiBytes[k] = PackLastEight(TRUE, KthCompleted(k), 1)
    /\ C23_PackingSDI

(***************************************************************************)
(* C24.  Forward-only bounded scan.                                        *)
(***************************************************************************)
\* every line is present and the enable and data lines hold a transition
ScanInputsNonEmpty ==
    /\ AllPresent
    /\ Len(enable.Data) > 0 /\ Len(mosi.Data) > 0 /\ Len(miso.Data) > 0

\* no step moves the clock index or a cursor backwards, and a cursor moves
\* by one transition at a time
ForwardOnly ==
    /\ iclk' >= iclk
    /\ enableLast' \in {enableLast, enableLast + 1}
    /\ mosiLast' \in {mosiLast, mosiLast + 1}
    /\ misoLast' \in {misoLast, misoLast + 1}

\* the loop ran at most ceil(len(clock)/2) times and each cursor advanced
\* at most len(line)-1 times
BoundedScan ==
    /\ Cardinality(visited) <= (Len(clock.Data) + 1) \div 2
    /\ enableLast <= Len(enable.Data) - 1
    /\ mosiLast <= Len(mosi.Data) - 1
    /\ misoLast <= Len(miso.Data) - 1

\* C24: on inputs whose enable and data lines hold a transition Scan
\* returns; the clock index and the three cursors never decrease, the loop
\* runs at most ceil(len(clock)/2) times and each cursor advances at most
\* len(line)-1 times.
C24_BoundedForwardScan ==
    /\ ScanInputsNonEmpty => <>(pc = "done")
    /\ [](ScanInputsNonEmpty => BoundedScan)
    /\ [][ForwardOnly]_vars

\* Scan returned after iterating over every other transition of a clock
\* with an odd number of them and after the data-in cursor reached the
\* last transition of its line
C24_Witness ==
    /\ pc = "done"
    /\ Len(clock.Data) % 2 = 1
    /\ Cardinality(visited) = (Len(clock.Data) + 1) \div 2
    /\ Len(miso.Data) >= 2
    /\ misoLast = Len(miso.Data) - 1

(***************************************************************************)
(* C25.  Cursor invariant.                                                 *)
(***************************************************************************)
\* the cursor `last` of a line is an index of its transitions, `tx` is the
\* transition it points at, and the tracked level `state` is the line's
\* initial level toggled once per transition the cursor passed
CursorInv(line, last, tx, state) ==
    /\ last \in 0..(Len(line.Data) - 1)
    /\ tx = At(line.Data, last)
    /\ state = ((line.InitialState # 0) # (last % 2 = 1))

\* C25: once the cursors are set up, the cursor of each of the enable,
\* data-out and data-in lines stays inside the line's transitions and the
\* tracked level is the initial level XOR the parity of the cursor, so that
\* at most len(line)-1 toggles are applied to a line.
C25_CursorInvariant ==
    pc \in {"loop", "done"} =>
        /\ CursorInv(enable, enableLast, tEnable, enableState)
        /\ CursorInv(mosi, mosiLast, tMosi, mosiState)
        /\ CursorInv(miso, misoLast, tMiso, misoState)

\* the enable cursor reached the last of at least three transitions and
\* both data cursors have moved
C25_Witness ==
    /\ pc = "loop"
    /\ Len(enable.Data) >= 3
    /\ enableLast = Len(enable.Data) - 1
    /\ mosiLast >= 1
    /\ misoLast >= 1

(***************************************************************************)
(* C26.  Error value.                                                      *)
(***************************************************************************)
\* a line is nil, or the enable, data-out or data-in line has no transition
InconsistentInput ==
    \/ ~AllPresent
    \/ Len(enable.Data) = 0 \/ Len(mosi.Data) = 0 \/ Len(miso.Data) = 0

\* C26: whenever Scan returns, the error is nil; an inconsistent input makes
\* Scan fail at run time before its loop starts, never return; and an empty
\* clock with transitions on the other lines returns no transaction and a
\* nil error.
C26_ErrorValue ==
    /\ pc = "done" => err = "nil"
    /\ InconsistentInput =>
          /\ pc \in {"start", "panic"}
          /\ visited = {} /\ samples = <<>> /\ txs = <<>>
    /\ ~InconsistentInput => pc # "panic"
    /\ (pc = "done" /\ ~InconsistentInput /\ Len(clock.Data) = 0) => txs = <<>>

\* Scan failed at run time on an enable line without transitions, the
\* other lines being in order
C26_Witness ==
    /\ pc = "panic"
    /\ AllPresent
    /\ Len(enable.Data) = 0
    /\ Len(clock.Data) > 0 /\ Len(mosi.Data) > 0 /\ Len(miso.Data) > 0

\* Scan returned on an empty clock, the other lines holding transitions
C26_WitnessEmptyClock ==
    /\ pc = "done"
    /\ ~InconsistentInput
    /\ Len(clock.Data) = 0
    /\ err = "nil"

(***************************************************************************)
(* C27.  ReadDigitalFile acceptance.                                       *)
(***************************************************************************)
\* the reader is nil, or its stream is shorter than a header, or a field of
\* the file header, read little-endian, is not the expected one
DigitalRejected ==
    \/ reader.isNil
    \/ Len(reader.bytes) < digitalHeaderSize
    \/ SubSeq(reader.bytes, 1, 8) # expectID
    \/ SubSeq(reader.bytes, 9, 12) # <<0, 0, 0, 0>>
    \/ SubSeq(reader.bytes, 13, 16) # <<0, 0, 0, 0>>

\* the call returned a file and a nil error
ReadSucceeded == rpc = "done" /\ rerr = "nil"

\* C27: ReadDigitalFile returns a nil file and an error, and reads no data,
\* when the reader is nil, the header is shorter than 44 bytes, the
\* identifier is not <SALEAE>, the version is not 0 or the type is not 0;
\* when it succeeds the file holds exactly Header.NumTransitions timestamps
\* and its header fields are the little-endian fields of the input.
C27_ReadDigitalAcceptance ==
    fn = "digital" =>
        /\ DigitalRejected =>
              /\ rpc \in {"call", "validate", "done"}
              /\ ~dataStep
              /\ rpc = "done" => (file.isNil /\ rerr # "nil")
        /\ (rpc = "done" /\ rerr # "nil") => file.isNil
        /\ ReadSucceeded =>
              /\ ~file.isNil
              /\ file.Header.Info.ID = SubSeq(reader.bytes, 1, 8)
              /\ file.Header.Info.Version = SubSeq(reader.bytes, 9, 12)
              /\ file.Header.Info.Type = SubSeq(reader.bytes, 13, 16)
              /\ file.Header.InitialState = SubSeq(reader.bytes, 17, 20)
              /\ file.Header.Begin = SubSeq(reader.bytes, 21, 28)
              /\ file.Header.End = SubSeq(reader.bytes, 29, 36)
              /\ file.Header.NumTransitions = SubSeq(reader.bytes, 37, 44)
              /\ FitsInt(file.Header.NumTransitions)
              /\ Len(file.Data) = ToInt(file.Header.NumTransitions)

\* ReadDigitalFile succeeded on a big-endian machine with two timestamps
C27_Witness ==
    /\ fn = "digital"
    /\ ReadSucceeded
    /\ bigEndian
    /\ Len(file.Data) >= 2

\* ReadDigitalFile rejected a stream whose type field is not 0
C27_WitnessRejected ==
    /\ fn = "digital"
    /\ rpc = "done"
    /\ rerr = "expected file header type in range 0..1"
    /\ file.isNil

C28_WitnessVersionOne ==
    /\ fn = "analog"
    /\ rpc = "done"
    /\ rerr = "expected file header version 0"
    /\ hdr.Info.Version = <<1, 0, 0, 0>>

=============================================================================
